---- MODULE Spec2Model ----
(***************************************************************************)
(* Dark/light theme state of the Nav bar and the ThemeSwitcher logo.       *)
(*                                                                         *)
(* The document root's class list is the one shared resource.  Every       *)
(* component instance keeps its own isDarkMode flag (useState(false)),     *)
(* sets it from the class list in a layout effect that runs once per       *)
(* mount, and renders its output (logo src, toggle icon and label) from    *)
(* the flag.  Nav.toggleDark toggles the "dark" class and negates the      *)
(* Nav's own flag.  Each Nav renders one ThemeSwitcher as a child;         *)
(* ThemeSwitcher is also exported and can be mounted on its own.           *)
(***************************************************************************)
EXTENDS Integers, Sequences, FiniteSets

\* ---------------------------------------------------------------- bounds
\* Nav instances mounted on the one document.
NumNavs == 2
\* ThemeSwitcher instances mounted outside any Nav.
NumSolo == 1

NavIds == 1..NumNavs
SoloIds == (NumNavs + 1)..(NumNavs + NumSolo)
\* The ThemeSwitcher rendered by Nav n has the id n.
TsIds == NavIds \cup SoloIds

\* Classes of the document root other than "dark" (set by the environment).
OtherClasses == {"antialiased"}
Classes == {"dark"} \cup OtherClasses

VARIABLES
    classList,  \* document.documentElement.classList
    nav,        \* nav[n]: phase, isDarkMode and rendered icon/label of Nav n
    ts,         \* ts[t]: phase, isDarkMode and rendered src of ThemeSwitcher t
    navSince,   \* history: toggles (by any Nav) since Nav n ran its effect
    tsSince,    \* history: toggles since ThemeSwitcher t ran its effect
    opened,     \* the URLs a browsing context was opened for (window.open)
    hist,       \* history: the trailing run of toggles of one Nav (its last two),
                \* each with the state before it
    reloadFrom, \* history: <<what the page was>> right after a reload, else <<>>
    remount,    \* history (SpecRemount only): <<the component just unmounted, and
                \* whether it disagreed with the class list>>, kept while it is
                \* being mounted again
    twin        \* SpecPair only: the class list of a second document, on which
                \* the second Nav definition runs beside the first

vars == <<classList, nav, ts, navSince, tsSince, opened, hist, reloadFrom, remount, twin>>

\* ------------------------------------------------------- pure functions
\* Mutant of Contains: the effect asks for a class name the toggle never sets.
ContainsOtherName(cl, c) == "dark-mode" \in cl

\* el.classList.contains("dark")
Contains(cl, c) == c \in cl

\* Mutant of ClassToggle: classList.add in place of classList.toggle.
ClassAdd(cl, c) == cl \cup {c}

\* Mutant of ClassToggle: the class attribute is overwritten
\* (el.className = ...) instead of one token being toggled.
ClassOverwrite(cl, c) == IF c \in cl THEN {} ELSE {c}

\* el.classList.toggle(c): remove c when present, add it when absent.
ClassToggle(cl, c) == IF c \in cl THEN cl \ {c} ELSE cl \cup {c}

\* Mutant of LogoSrc: the two image paths are exchanged.
LogoSrcSwapped(isDarkMode) == IF isDarkMode THEN "/botdw-black.png" ELSE "/botdw-white.png"

\* ThemeSwitcher: src={isDarkMode ? "/botdw-white.png" : "/botdw-black.png"}
LogoSrc(isDarkMode) == IF isDarkMode THEN "/botdw-white.png" ELSE "/botdw-black.png"

\* Nav: {isDarkMode ? <Sun/> : <Moon/>}
NavIcon(isDarkMode) == IF isDarkMode THEN "Sun" ELSE "Moon"

\* Mutant of NavLabel: the label names the current theme, not the other one.
NavLabelCurrent(isDarkMode) == (IF isDarkMode THEN "Dark" ELSE "Light") \o " Mode"

\* Nav: <span>{isDarkMode ? "Light" : "Dark"} Mode</span>
NavLabel(isDarkMode) == (IF isDarkMode THEN "Light" ELSE "Dark") \o " Mode"

\* The two Nav definitions: the first has the homepage and the read-more
\* button, the second the homepage button only.
NavVariant(n) == IF n % 2 = 1 THEN "BOT WORKS" ELSE "DIGITAL WORKS"

NavLinks(n) == IF NavVariant(n) = "BOT WORKS"
               THEN {"pkg.homepage", "pkg.readmore"}
               ELSE {"pkg.homepage"}

\* ---------------------------------------------------- component records
NoNav == [phase |-> "unmounted", isDarkMode |-> FALSE, icon |-> "", label |-> ""]
NoTs == [phase |-> "unmounted", isDarkMode |-> FALSE, src |-> ""]

\* Nav's render output for a value of its state.
NavRender(phase, isDarkMode) ==
    [phase |-> phase, isDarkMode |-> isDarkMode,
     icon |-> NavIcon(isDarkMode), label |-> NavLabel(isDarkMode)]

\* ThemeSwitcher's render output for a value of its state.
TsRender(phase, isDarkMode) ==
    [phase |-> phase, isDarkMode |-> isDarkMode, src |-> LogoSrc(isDarkMode)]

\* What a viewer and the DOM can tell: class list, flags and rendered output.
Snapshot == [classList |-> classList, nav |-> nav, ts |-> ts]

\* Toggles since mount, counted as 0, 1, 2, 1, 2, ...: zero exactly when
\* there was none, and of the parity of the true count.
Bump(k) == IF k < 2 THEN k + 1 ELSE 1

\* The run of toggles extended by one of Nav n: a toggle of another Nav
\* starts a new run, and only the last two of a run are kept.
Extend(h, n, before) ==
    LET e == [id |-> n, before |-> before]
    IN  IF h = <<>> \/ h[Len(h)].id # n THEN <<e>> ELSE <<h[Len(h)], e>>

\* Mutant of InDocument: a passive effect (useEffect), which runs after the
\* paint of the first render's output.
InDocumentFromRender(phase) == phase # "unmounted"

\* Whether a paint can show the component's output: layout effects run in
\* the commit that puts the output into the document, and the state they
\* set is rendered before the browser paints, so the output of the first
\* render alone is never on screen.
InDocument(phase) == phase = "mounted"

\* What is painted of Nav n.
NavPainted(n) ==
    IF InDocument(nav[n].phase)
    THEN [icon |-> nav[n].icon, label |-> nav[n].label]
    ELSE [icon |-> "", label |-> ""]

\* What is painted of ThemeSwitcher t.
TsPainted(t) == IF InDocument(ts[t].phase) THEN ts[t].src ELSE ""

\* The record of the last unmount lasts while the steps that follow are the
\* first render and the layout effect of the same component.
Again(r, id) == IF r # <<>> /\ r[1].id = id THEN r ELSE <<>>

\* ------------------------------------------------------------- Init
Init ==
    /\ classList \in SUBSET Classes
    /\ nav = [n \in NavIds |-> NoNav]
    /\ ts = [t \in TsIds |-> NoTs]
    /\ navSince = [n \in NavIds |-> 0]
    /\ tsSince = [t \in TsIds |-> 0]
    /\ opened = {}
    /\ hist = <<>>
    /\ reloadFrom = <<>>
    /\ remount = <<>>
    /\ twin = {}

\* ------------------------------------------------------------- actions
\* Mutant of NavRenderInitial: a lazy initial state that reads the class list
\* (useState(() => el.classList.contains("dark"))) in Nav and in its child.
NavRenderInitialReads(n) ==
    /\ nav[n].phase = "unmounted"
    /\ nav' = [nav EXCEPT ![n] = NavRender("rendered", Contains(classList, "dark"))]
    /\ ts' = [ts EXCEPT ![n] = TsRender("rendered", Contains(classList, "dark"))]
    /\ twin' = twin
    /\ hist' = <<>>
    /\ reloadFrom' = <<>>
    /\ remount' = Again(remount, n)
    /\ UNCHANGED <<classList, navSince, tsSince, opened>>

\* First render of Nav n and of its child: useState(false) in both.
NavRenderInitial(n) ==
    /\ nav[n].phase = "unmounted"
    /\ nav' = [nav EXCEPT ![n] = NavRender("rendered", FALSE)]
    /\ ts' = [ts EXCEPT ![n] = TsRender("rendered", FALSE)]
    /\ twin' = twin
    /\ hist' = <<>>
    /\ reloadFrom' = <<>>
    /\ remount' = Again(remount, n)
    /\ UNCHANGED <<classList, navSince, tsSince, opened>>

\* Mutant of NavLayoutEffect: the effect forces the class list to the initial
\* flag (classList.toggle("dark", isDarkMode)) instead of reading it.
NavLayoutEffectWrites(n) ==
    /\ nav[n].phase = "rendered"
    /\ classList' = classList \ {"dark"}
    /\ ts' = [ts EXCEPT ![n] = TsRender("mounted", FALSE)]
    /\ nav' = [nav EXCEPT ![n] = NavRender("mounted", FALSE)]
    /\ navSince' = [navSince EXCEPT ![n] = 0]
    /\ tsSince' = [tsSince EXCEPT ![n] = 0]
    /\ twin' = twin
    /\ hist' = <<>>
    /\ reloadFrom' = <<>>
    /\ remount' = Again(remount, n)
    /\ UNCHANGED opened

\* Mutant of NavLayoutEffect: the two effects run in separate tasks and a
\* toggle of the class gets in between the child's read and Nav's read.
NavLayoutEffectSplit(n) ==
    /\ nav[n].phase = "rendered"
    /\ ts' = [ts EXCEPT ![n] = TsRender("mounted", Contains(classList, "dark"))]
    /\ classList' = ClassToggle(classList, "dark")
    /\ nav' = [nav EXCEPT ![n] =
                 NavRender("mounted", Contains(ClassToggle(classList, "dark"), "dark"))]
    /\ navSince' = [navSince EXCEPT ![n] = 0]
    /\ tsSince' = [tsSince EXCEPT ![n] = 0]
    /\ twin' = twin
    /\ hist' = <<>>
    /\ reloadFrom' = <<>>
    /\ remount' = Again(remount, n)
    /\ UNCHANGED opened

\* Mutant of NavLayoutEffect: the read is guarded by a module-level "done"
\* flag, so it happens on the first mount only and a remount keeps false.
NavLayoutEffectOnce(n) ==
    /\ nav[n].phase = "rendered"
    /\ LET again == remount # <<>> /\ remount[1].id = n
           flag == IF again THEN FALSE ELSE Contains(classList, "dark")
       IN  /\ ts' = [ts EXCEPT ![n] = TsRender("mounted", flag)]
           /\ nav' = [nav EXCEPT ![n] = NavRender("mounted", flag)]
    /\ navSince' = [navSince EXCEPT ![n] = 0]
    /\ tsSince' = [tsSince EXCEPT ![n] = 0]
    /\ twin' = twin
    /\ hist' = <<>>
    /\ reloadFrom' = <<>>
    /\ remount' = Again(remount, n)
    /\ UNCHANGED <<classList, opened>>

\* Commit of Nav n: the child's layout effect, then Nav's, each setting the
\* flag from the class list, and the synchronous re-render that follows.
NavLayoutEffect(n) ==
    /\ nav[n].phase = "rendered"
    /\ ts' = [ts EXCEPT ![n] = TsRender("mounted", Contains(classList, "dark"))]
    /\ nav' = [nav EXCEPT ![n] = NavRender("mounted", Contains(classList, "dark"))]
    /\ navSince' = [navSince EXCEPT ![n] = 0]
    /\ tsSince' = [tsSince EXCEPT ![n] = 0]
    /\ twin' = twin
    /\ hist' = <<>>
    /\ reloadFrom' = <<>>
    /\ remount' = Again(remount, n)
    /\ UNCHANGED <<classList, opened>>

\* First render of a ThemeSwitcher mounted on its own.
TsRenderInitial(t) ==
    /\ t \in SoloIds
    /\ ts[t].phase = "unmounted"
    /\ ts' = [ts EXCEPT ![t] = TsRender("rendered", FALSE)]
    /\ twin' = twin
    /\ hist' = <<>>
    /\ reloadFrom' = <<>>
    /\ remount' = Again(remount, t)
    /\ UNCHANGED <<classList, nav, navSince, tsSince, opened>>

\* Mutant of TsLayoutEffect: the effect never sets the flag.
TsLayoutEffectNoRead(t) ==
    /\ t \in SoloIds
    /\ ts[t].phase = "rendered"
    /\ ts' = [ts EXCEPT ![t] = TsRender("mounted", ts[t].isDarkMode)]
    /\ tsSince' = [tsSince EXCEPT ![t] = 0]
    /\ twin' = twin
    /\ hist' = <<>>
    /\ reloadFrom' = <<>>
    /\ remount' = Again(remount, t)
    /\ UNCHANGED <<classList, nav, navSince, opened>>

\* Layout effect of a ThemeSwitcher mounted on its own, and its re-render.
TsLayoutEffect(t) ==
    /\ t \in SoloIds
    /\ ts[t].phase = "rendered"
    /\ ts' = [ts EXCEPT ![t] = TsRender("mounted", Contains(classList, "dark"))]
    /\ tsSince' = [tsSince EXCEPT ![t] = 0]
    /\ twin' = twin
    /\ hist' = <<>>
    /\ reloadFrom' = <<>>
    /\ remount' = Again(remount, t)
    /\ UNCHANGED <<classList, nav, navSince, opened>>

\* Mutant of ToggleDark: the child's effect has no dependency list, so it
\* runs again on the re-render and reads the class list again.
ToggleDarkChildRereads(n) ==
    /\ nav[n].phase = "mounted"
    /\ classList' = ClassToggle(classList, "dark")
    /\ nav' = [nav EXCEPT ![n] = NavRender("mounted", ~nav[n].isDarkMode)]
    /\ ts' = [ts EXCEPT ![n] =
                TsRender(ts[n].phase, Contains(ClassToggle(classList, "dark"), "dark"))]
    /\ navSince' = [m \in NavIds |->
                      IF nav[m].phase = "mounted" THEN Bump(navSince[m]) ELSE navSince[m]]
    /\ tsSince' = [t \in TsIds |->
                      IF ts[t].phase = "mounted" THEN Bump(tsSince[t]) ELSE tsSince[t]]
    /\ twin' = twin
    /\ hist' = Extend(hist, n, Snapshot)
    /\ reloadFrom' = <<>>
    /\ remount' = <<>>
    /\ UNCHANGED opened

\* Mutant of ToggleDark: the new flag is read back from the class list
\* (setIsDarkMode(el.classList.contains("dark"))) instead of negated.
ToggleDarkReadsBack(n) ==
    /\ nav[n].phase = "mounted"
    /\ classList' = ClassToggle(classList, "dark")
    /\ nav' = [nav EXCEPT ![n] =
                 NavRender("mounted", Contains(ClassToggle(classList, "dark"), "dark"))]
    /\ ts' = [ts EXCEPT ![n] = TsRender(ts[n].phase, ts[n].isDarkMode)]
    /\ navSince' = [m \in NavIds |->
                      IF nav[m].phase = "mounted" THEN Bump(navSince[m]) ELSE navSince[m]]
    /\ tsSince' = [t \in TsIds |->
                      IF ts[t].phase = "mounted" THEN Bump(tsSince[t]) ELSE tsSince[t]]
    /\ twin' = twin
    /\ hist' = Extend(hist, n, Snapshot)
    /\ reloadFrom' = <<>>
    /\ remount' = <<>>
    /\ UNCHANGED opened

\* Mutant of ToggleDark: the handler gives up (throws) when the flag and the
\* class list disagree.
ToggleDarkChecked(n) ==
    /\ nav[n].phase = "mounted"
    /\ nav[n].isDarkMode = Contains(classList, "dark")
    /\ classList' = ClassToggle(classList, "dark")
    /\ nav' = [nav EXCEPT ![n] = NavRender("mounted", ~nav[n].isDarkMode)]
    /\ ts' = [ts EXCEPT ![n] = TsRender(ts[n].phase, ts[n].isDarkMode)]
    /\ navSince' = [m \in NavIds |->
                      IF nav[m].phase = "mounted" THEN Bump(navSince[m]) ELSE navSince[m]]
    /\ tsSince' = [t \in TsIds |->
                      IF ts[t].phase = "mounted" THEN Bump(tsSince[t]) ELSE tsSince[t]]
    /\ twin' = twin
    /\ hist' = Extend(hist, n, Snapshot)
    /\ reloadFrom' = <<>>
    /\ remount' = <<>>
    /\ UNCHANGED opened

\* Mutant of ToggleDark: the handler toggles the class and forgets
\* setIsDarkMode.
ToggleDarkClassOnly(n) ==
    /\ nav[n].phase = "mounted"
    /\ classList' = ClassToggle(classList, "dark")
    /\ nav' = [nav EXCEPT ![n] = NavRender("mounted", nav[n].isDarkMode)]
    /\ ts' = [ts EXCEPT ![n] = TsRender(ts[n].phase, ts[n].isDarkMode)]
    /\ navSince' = [m \in NavIds |->
                      IF nav[m].phase = "mounted" THEN Bump(navSince[m]) ELSE navSince[m]]
    /\ tsSince' = [t \in TsIds |->
                      IF ts[t].phase = "mounted" THEN Bump(tsSince[t]) ELSE tsSince[t]]
    /\ twin' = twin
    /\ hist' = Extend(hist, n, Snapshot)
    /\ reloadFrom' = <<>>
    /\ remount' = <<>>
    /\ UNCHANGED opened

\* Mutant of ToggleDark: the toggle also negates the flag of the Nav's logo.
ToggleDarkNotifies(n) ==
    /\ nav[n].phase = "mounted"
    /\ classList' = ClassToggle(classList, "dark")
    /\ nav' = [nav EXCEPT ![n] = NavRender("mounted", ~nav[n].isDarkMode)]
    /\ ts' = [ts EXCEPT ![n] = TsRender(ts[n].phase, ~ts[n].isDarkMode)]
    /\ navSince' = [m \in NavIds |->
                      IF nav[m].phase = "mounted" THEN Bump(navSince[m]) ELSE navSince[m]]
    /\ tsSince' = [t \in TsIds |->
                      IF ts[t].phase = "mounted" THEN Bump(tsSince[t]) ELSE tsSince[t]]
    /\ twin' = twin
    /\ hist' = Extend(hist, n, Snapshot)
    /\ reloadFrom' = <<>>
    /\ remount' = <<>>
    /\ UNCHANGED opened

\* Click on Nav n's theme button: el.classList.toggle("dark") and
\* setIsDarkMode(prev => !prev), then the re-render of Nav n (its child
\* re-renders from its own, unchanged, state).
ToggleDark(n) ==
    /\ nav[n].phase = "mounted"
    /\ classList' = ClassToggle(classList, "dark")
    /\ nav' = [nav EXCEPT ![n] = NavRender("mounted", ~nav[n].isDarkMode)]
    /\ ts' = [ts EXCEPT ![n] = TsRender(ts[n].phase, ts[n].isDarkMode)]
    /\ navSince' = [m \in NavIds |->
                      IF nav[m].phase = "mounted" THEN Bump(navSince[m]) ELSE navSince[m]]
    /\ tsSince' = [t \in TsIds |->
                      IF ts[t].phase = "mounted" THEN Bump(tsSince[t]) ELSE tsSince[t]]
    /\ twin' = twin
    /\ hist' = Extend(hist, n, Snapshot)
    /\ reloadFrom' = <<>>
    /\ remount' = <<>>
    /\ UNCHANGED opened

\* Mutant of OpenLink: the target is "_self", so the page is left and its
\* components are gone.
OpenLinkSelf(n, url) ==
    /\ nav[n].phase = "mounted"
    /\ url \in NavLinks(n)
    /\ opened' = opened \cup {url}
    /\ classList' = {}
    /\ nav' = [m \in NavIds |-> NoNav]
    /\ ts' = [t \in TsIds |-> NoTs]
    /\ navSince' = [m \in NavIds |-> 0]
    /\ tsSince' = [t \in TsIds |-> 0]
    /\ twin' = twin
    /\ hist' = <<>>
    /\ reloadFrom' = <<>>
    /\ remount' = <<>>

\* Click on one of Nav n's link buttons: window.open(url, "_blank", ...).
OpenLink(n, url) ==
    /\ nav[n].phase = "mounted"
    /\ url \in NavLinks(n)
    /\ opened' = opened \cup {url}
    /\ twin' = twin
    /\ hist' = <<>>
    /\ reloadFrom' = <<>>
    /\ remount' = <<>>
    /\ UNCHANGED <<classList, nav, ts, navSince, tsSince>>

\* Nav n, with its child, leaves the tree: the state of both is dropped.
NavUnmount(n) ==
    /\ nav[n].phase = "mounted"
    /\ nav' = [nav EXCEPT ![n] = NoNav]
    /\ ts' = [ts EXCEPT ![n] = NoTs]
    /\ navSince' = [navSince EXCEPT ![n] = 0]
    /\ tsSince' = [tsSince EXCEPT ![n] = 0]
    /\ twin' = twin
    /\ hist' = <<>>
    /\ reloadFrom' = <<>>
    /\ remount' = <<>>
    /\ UNCHANGED <<classList, opened>>

\* NavUnmount, with the history of it written down.
NavUnmountNoted(n) ==
    /\ nav[n].phase = "mounted"
    /\ nav' = [nav EXCEPT ![n] = NoNav]
    /\ ts' = [ts EXCEPT ![n] = NoTs]
    /\ navSince' = [navSince EXCEPT ![n] = 0]
    /\ tsSince' = [tsSince EXCEPT ![n] = 0]
    /\ twin' = twin
    /\ hist' = <<>>
    /\ reloadFrom' = <<>>
    /\ remount' = <<[id |-> n,
                     disagreed |-> \/ nav[n].isDarkMode # ("dark" \in classList)
                                   \/ ts[n].isDarkMode # ("dark" \in classList)]>>
    /\ UNCHANGED <<classList, opened>>

\* A ThemeSwitcher mounted on its own leaves the tree.
TsUnmount(t) ==
    /\ t \in SoloIds
    /\ ts[t].phase = "mounted"
    /\ ts' = [ts EXCEPT ![t] = NoTs]
    /\ tsSince' = [tsSince EXCEPT ![t] = 0]
    /\ twin' = twin
    /\ hist' = <<>>
    /\ reloadFrom' = <<>>
    /\ remount' = <<>>
    /\ UNCHANGED <<classList, nav, navSince, opened>>

\* TsUnmount, with the history of it written down.
TsUnmountNoted(t) ==
    /\ t \in SoloIds
    /\ ts[t].phase = "mounted"
    /\ ts' = [ts EXCEPT ![t] = NoTs]
    /\ tsSince' = [tsSince EXCEPT ![t] = 0]
    /\ twin' = twin
    /\ hist' = <<>>
    /\ reloadFrom' = <<>>
    /\ remount' = <<[id |-> t,
                     disagreed |-> ts[t].isDarkMode # ("dark" \in classList)]>>
    /\ UNCHANGED <<classList, nav, navSince, opened>>

\* Mutant of Reload: the theme is stored and restored (the marker survives).
ReloadRestores ==
    /\ classList' \in {c \in SUBSET Classes : ("dark" \in c) = ("dark" \in classList)}
    /\ nav' = [n \in NavIds |-> NoNav]
    /\ ts' = [t \in TsIds |-> NoTs]
    /\ navSince' = [n \in NavIds |-> 0]
    /\ tsSince' = [t \in TsIds |-> 0]
    /\ twin' = twin
    /\ hist' = <<>>
    /\ reloadFrom' = <<[marker |-> "dark" \in classList,
                        toggled |-> \E n \in NavIds : navSince[n] > 0]>>
    /\ remount' = <<>>
    /\ UNCHANGED opened

\* Page reload: every component instance and its state is gone, and the
\* class list is whatever the fresh document carries.  Neither toggleDark
\* nor the effects write anything that outlives the page.
Reload ==
    /\ classList' \in SUBSET Classes
    /\ nav' = [n \in NavIds |-> NoNav]
    /\ ts' = [t \in TsIds |-> NoTs]
    /\ navSince' = [n \in NavIds |-> 0]
    /\ tsSince' = [t \in TsIds |-> 0]
    /\ twin' = twin
    /\ hist' = <<>>
    /\ reloadFrom' = <<[marker |-> "dark" \in classList,
                        toggled |-> \E n \in NavIds : navSince[n] > 0]>>
    /\ remount' = <<>>
    /\ UNCHANGED opened

Next ==
    \/ \E n \in NavIds : NavRenderInitial(n)
    \/ \E n \in NavIds : NavLayoutEffect(n)
    \/ \E t \in SoloIds : TsRenderInitial(t)
    \/ \E t \in SoloIds : TsLayoutEffect(t)
    \/ \E n \in NavIds : ToggleDark(n)
    \/ \E n \in NavIds : \E url \in {"pkg.homepage", "pkg.readmore"} : OpenLink(n, url)
    \/ \E n \in NavIds : NavUnmount(n)
    \/ \E t \in SoloIds : TsUnmount(t)
    \/ Reload

Spec == Init /\ [][Next]_vars

\* The page with a single Nav: only the first Nav is ever rendered, so its
\* toggleDark is the only writer of the class list while it is mounted.
OnlyNav == CHOOSE n \in NavIds : \A m \in NavIds : n <= m

NextOneNav ==
    \/ NavRenderInitial(OnlyNav)
    \/ NavLayoutEffect(OnlyNav)
    \/ ToggleDark(OnlyNav)
    \/ \E url \in {"pkg.homepage", "pkg.readmore"} : OpenLink(OnlyNav, url)
    \/ NavUnmount(OnlyNav)
    \/ \E t \in SoloIds : TsRenderInitial(t)
    \/ \E t \in SoloIds : TsLayoutEffect(t)
    \/ \E t \in SoloIds : TsUnmount(t)
    \/ Reload

SpecOneNav == Init /\ [][NextOneNav]_vars

\* The theme state alone (no link is clicked), with every unmount noted, so
\* that a mount can be told to be a remount.
NextRemount ==
    \/ \E n \in NavIds : NavRenderInitial(n)
    \/ \E n \in NavIds : NavLayoutEffect(n)
    \/ \E t \in SoloIds : TsRenderInitial(t)
    \/ \E t \in SoloIds : TsLayoutEffect(t)
    \/ \E n \in NavIds : ToggleDark(n)
    \/ \E n \in NavIds : NavUnmountNoted(n)
    \/ \E t \in SoloIds : TsUnmountNoted(t)
    \/ Reload

SpecRemount == Init /\ [][NextRemount]_vars

\* ------------------------------------------- the two Nav definitions
\* The first definition (BOT WORKS) and the second (DIGITAL WORKS), each
\* translated from its own lines, run side by side: the first on classList,
\* the second on twin, through the same mounts and clicks.
BotNav == CHOOSE n \in NavIds :
              /\ NavVariant(n) = "BOT WORKS"
              /\ \A m \in NavIds : NavVariant(m) = "BOT WORKS" => n <= m

DigitalNav == CHOOSE n \in NavIds :
                  /\ NavVariant(n) = "DIGITAL WORKS"
                  /\ \A m \in NavIds : NavVariant(m) = "DIGITAL WORKS" => n <= m

\* First definition: useState(false).
BotInitial == FALSE

\* First definition: the layout effect's setIsDarkMode(el.classList.contains("dark")).
BotEffect(doc) == Contains(doc, "dark")

\* First definition: toggleDark.
BotToggle(doc, isDarkMode) ==
    [doc |-> ClassToggle(doc, "dark"), isDarkMode |-> ~isDarkMode]

\* First definition: the theme button's icon and label.
BotView(phase, isDarkMode) ==
    [phase |-> phase, isDarkMode |-> isDarkMode,
     icon |-> IF isDarkMode THEN "Sun" ELSE "Moon",
     label |-> (IF isDarkMode THEN "Light" ELSE "Dark") \o " Mode"]

\* Second definition: useState(false).
DigitalInitial == FALSE

\* Second definition: the layout effect's setIsDarkMode(el.classList.contains("dark")).
DigitalEffect(doc) == Contains(doc, "dark")

\* Mutant of DigitalToggle: the second definition sets the class and the
\* flag instead of toggling them.
DigitalToggleSets(doc, isDarkMode) ==
    [doc |-> ClassAdd(doc, "dark"), isDarkMode |-> TRUE]

\* Second definition: toggleDark.
DigitalToggle(doc, isDarkMode) ==
    [doc |-> ClassToggle(doc, "dark"), isDarkMode |-> ~isDarkMode]

\* Second definition: the theme button's icon and label.
DigitalView(phase, isDarkMode) ==
    [phase |-> phase, isDarkMode |-> isDarkMode,
     icon |-> IF isDarkMode THEN "Sun" ELSE "Moon",
     label |-> (IF isDarkMode THEN "Light" ELSE "Dark") \o " Mode"]

\* Two documents with the same marker; their other classes are free.
InitPair ==
    /\ classList \in SUBSET Classes
    /\ twin \in {c \in SUBSET Classes : ("dark" \in c) = ("dark" \in classList)}
    /\ nav = [n \in NavIds |-> NoNav]
    /\ ts = [t \in TsIds |-> NoTs]
    /\ navSince = [n \in NavIds |-> 0]
    /\ tsSince = [t \in TsIds |-> 0]
    /\ opened = {}
    /\ hist = <<>>
    /\ reloadFrom = <<>>
    /\ remount = <<>>

\* Both Navs, each with its ThemeSwitcher, are rendered for the first time.
PairRenderInitial ==
    /\ nav[BotNav].phase = "unmounted"
    /\ nav[DigitalNav].phase = "unmounted"
    /\ nav' = [nav EXCEPT ![BotNav] = BotView("rendered", BotInitial),
                          ![DigitalNav] = DigitalView("rendered", DigitalInitial)]
    /\ ts' = [ts EXCEPT ![BotNav] = TsRender("rendered", FALSE),
                        ![DigitalNav] = TsRender("rendered", FALSE)]
    /\ UNCHANGED <<classList, twin, navSince, tsSince, opened, hist, reloadFrom, remount>>

\* The layout effects of both commits, each reading its own document.
PairLayoutEffect ==
    /\ nav[BotNav].phase = "rendered"
    /\ nav[DigitalNav].phase = "rendered"
    /\ nav' = [nav EXCEPT ![BotNav] = BotView("mounted", BotEffect(classList)),
                          ![DigitalNav] = DigitalView("mounted", DigitalEffect(twin))]
    /\ ts' = [ts EXCEPT ![BotNav] = TsRender("mounted", Contains(classList, "dark")),
                        ![DigitalNav] = TsRender("mounted", Contains(twin, "dark"))]
    /\ navSince' = [navSince EXCEPT ![BotNav] = 0, ![DigitalNav] = 0]
    /\ tsSince' = [tsSince EXCEPT ![BotNav] = 0, ![DigitalNav] = 0]
    /\ UNCHANGED <<classList, twin, opened, hist, reloadFrom, remount>>

\* The theme button of both Navs is clicked.
PairToggleDark ==
    /\ nav[BotNav].phase = "mounted"
    /\ nav[DigitalNav].phase = "mounted"
    /\ LET b == BotToggle(classList, nav[BotNav].isDarkMode)
           d == DigitalToggle(twin, nav[DigitalNav].isDarkMode)
       IN  /\ classList' = b.doc
           /\ twin' = d.doc
           /\ nav' = [nav EXCEPT ![BotNav] = BotView("mounted", b.isDarkMode),
                                 ![DigitalNav] = DigitalView("mounted", d.isDarkMode)]
    /\ navSince' = [navSince EXCEPT ![BotNav] = Bump(navSince[BotNav]),
                                    ![DigitalNav] = Bump(navSince[DigitalNav])]
    /\ tsSince' = [tsSince EXCEPT ![BotNav] = Bump(tsSince[BotNav]),
                                  ![DigitalNav] = Bump(tsSince[DigitalNav])]
    /\ UNCHANGED <<ts, opened, hist, reloadFrom, remount>>

\* A link button is clicked: the homepage button, which both definitions
\* have, in both, or the read-more button, which only the first has.
PairOpenLink(url) ==
    /\ nav[BotNav].phase = "mounted"
    /\ nav[DigitalNav].phase = "mounted"
    /\ url \in NavLinks(BotNav) \cup NavLinks(DigitalNav)
    /\ opened' = opened \cup {url}
    /\ UNCHANGED <<classList, twin, nav, ts, navSince, tsSince, hist, reloadFrom, remount>>

\* Both Navs leave their trees.
PairUnmount ==
    /\ nav[BotNav].phase = "mounted"
    /\ nav[DigitalNav].phase = "mounted"
    /\ nav' = [nav EXCEPT ![BotNav] = NoNav, ![DigitalNav] = NoNav]
    /\ ts' = [ts EXCEPT ![BotNav] = NoTs, ![DigitalNav] = NoTs]
    /\ navSince' = [navSince EXCEPT ![BotNav] = 0, ![DigitalNav] = 0]
    /\ tsSince' = [tsSince EXCEPT ![BotNav] = 0, ![DigitalNav] = 0]
    /\ UNCHANGED <<classList, twin, opened, hist, reloadFrom, remount>>

NextPair ==
    \/ PairRenderInitial
    \/ PairLayoutEffect
    \/ PairToggleDark
    \/ \E url \in {"pkg.homepage", "pkg.readmore"} : PairOpenLink(url)
    \/ PairUnmount

SpecPair == InitPair /\ [][NextPair]_vars

\* ------------------------------------------------------------ properties
\* Whether the document root carries the "dark" marker.
Marker == "dark" \in classList

\* Nav n has run its mount effect and no toggle happened since.
NavFresh(n) == nav[n].phase = "mounted" /\ navSince[n] = 0

\* ThemeSwitcher t has run its mount effect and no toggle happened since.
TsFresh(t) == ts[t].phase = "mounted" /\ tsSince[t] = 0

\* C1: one toggleDark of a mounted Nav, from marker state S, leaves the
\* marker, the Nav's label and icon and its logo's image all showing the
\* opposite of S.
C1_ToggleFlipsMarkerLabelAndLogo ==
    [][\A n \in NavIds :
         (ToggleDark(n) /\ ts[n].phase = "mounted") =>
            /\ Marker' = ~Marker
            /\ nav'[n].label = (IF Marker THEN "Dark Mode" ELSE "Light Mode")
            /\ nav'[n].icon = (IF Marker THEN "Moon" ELSE "Sun")
            /\ ts'[n].src = (IF Marker THEN "/botdw-black.png" ELSE "/botdw-white.png")]_vars

\* C2: a click on the toggle of a mounted Nav while the marker is absent
\* makes the marker present, the Nav's logo the dark-mode image and the
\* label "Light Mode".
C2_ClickFromLight ==
    [][\A n \in NavIds :
         (ToggleDark(n) /\ ~Marker) =>
            /\ Marker'
            /\ ts'[n].src = "/botdw-white.png"
            /\ nav'[n].label = "Light Mode"]_vars

\* C3: the isDarkMode flag of every component that has run its mount
\* effect equals the presence of the marker.
C3_LocalCopiesAgreeWithMarker ==
    /\ \A n \in NavIds : nav[n].phase = "mounted" => nav[n].isDarkMode = Marker
    /\ \A t \in TsIds : ts[t].phase = "mounted" => ts[t].isDarkMode = Marker

\* C4: a ThemeSwitcher that has mounted, with no toggle since, shows
\* /botdw-white.png when the marker is present and /botdw-black.png when
\* it is absent.
C4_LogoMatchesMarkerAfterMount ==
    \A t \in TsIds :
        TsFresh(t) =>
            ts[t].src = (IF Marker THEN "/botdw-white.png" ELSE "/botdw-black.png")

C4_Witness ==
    \E t \in SoloIds : TsFresh(t) /\ Marker /\ ts[t].src = "/botdw-white.png"

\* C5: a Nav that has mounted, with no toggle since, shows "Light Mode"
\* with the Sun icon when the marker is present and "Dark Mode" with the
\* Moon icon when it is absent.
C5_LabelMatchesMarkerAfterMount ==
    \A n \in NavIds :
        NavFresh(n) =>
            /\ nav[n].label = (IF Marker THEN "Light Mode" ELSE "Dark Mode")
            /\ nav[n].icon = (IF Marker THEN "Sun" ELSE "Moon")

C5_Witness ==
    \E n \in NavIds :
        NavFresh(n) /\ Marker /\ nav[n].label = "Light Mode" /\ nav[n].icon = "Sun"

\* C6: after two toggles in succession of one Nav, the class list, every
\* flag and every rendered label, icon and logo are what they were before
\* the first of the two.
C6_ToggleTwiceRestores ==
    (Len(hist) = 2 /\ hist[1].id = hist[2].id) => hist[1].before = Snapshot

C6_Witness ==
    /\ Len(hist) = 2
    /\ hist[1].id = hist[2].id
    /\ hist[2].before.classList # classList
    /\ hist[2].before.nav[hist[2].id].label # nav[hist[2].id].label
    /\ hist[1].before = Snapshot

\* C7: after a toggleDark of Nav n, the flag of Nav n equals the presence
\* of the marker, whatever other Navs are mounted.
C7_TogglerAgreesWithMarker ==
    [][\A n \in NavIds :
         ToggleDark(n) => nav'[n].isDarkMode = Marker']_vars

\* C8: the mount effect of a Nav (with its child's) and of a ThemeSwitcher
\* leaves the class list as it was and changes no other instance.
C8_MountEffectKeepsMarker ==
    [][/\ \A n \in NavIds :
             NavLayoutEffect(n) =>
                /\ classList' = classList
                /\ \A m \in NavIds \ {n} : nav'[m] = nav[m]
                /\ \A t \in TsIds \ {n} : ts'[t] = ts[t]
       /\ \A t \in SoloIds :
             TsLayoutEffect(t) =>
                /\ classList' = classList
                /\ nav' = nav
                /\ \A u \in TsIds \ {t} : ts'[u] = ts[u]]_vars

C8_Witness ==
    /\ Marker
    /\ \E n \in NavIds : NavFresh(n) /\ nav[n].isDarkMode /\ ts[n].isDarkMode
    /\ \E t \in SoloIds : TsFresh(t) /\ ts[t].isDarkMode

\* C9: two ThemeSwitchers, or a ThemeSwitcher and a Nav that does not
\* contain it, that have mounted with no toggle since, each hold a flag
\* equal to the presence of the marker, and so the same flag.
C9_IndependentInstancesAgree ==
    /\ \A t \in TsIds : \A u \in TsIds \ {t} :
          (TsFresh(t) /\ TsFresh(u)) =>
             /\ ts[t].isDarkMode = Marker
             /\ ts[u].isDarkMode = Marker
             /\ ts[t].isDarkMode = ts[u].isDarkMode
    /\ \A t \in TsIds : \A n \in NavIds \ {t} :
          (TsFresh(t) /\ NavFresh(n)) =>
             /\ ts[t].isDarkMode = Marker
             /\ nav[n].isDarkMode = Marker
             /\ ts[t].isDarkMode = nav[n].isDarkMode

C9_Witness ==
    /\ Marker
    /\ \E t \in SoloIds : \E u \in NavIds :
          TsFresh(t) /\ TsFresh(u) /\ ts[t].isDarkMode /\ ts[u].isDarkMode
    /\ \E t \in SoloIds : \E n \in NavIds :
          TsFresh(t) /\ NavFresh(n) /\ ts[t].isDarkMode /\ nav[n].isDarkMode

\* C10: a toggleDark of Nav n changes the marker and the flag of Nav n,
\* and the flag of no other Nav and of no ThemeSwitcher.
C10_ToggleChangesOnlyOwnFlag ==
    [][\A n \in NavIds :
         ToggleDark(n) =>
            /\ Marker' # Marker
            /\ nav'[n].isDarkMode # nav[n].isDarkMode
            /\ \A m \in NavIds \ {n} : nav'[m].isDarkMode = nav[m].isDarkMode
            /\ \A t \in TsIds : ts'[t].isDarkMode = ts[t].isDarkMode]_vars

C10_Witness ==
    /\ hist # <<>>
    /\ LET n == hist[Len(hist)].id
       IN  /\ nav[n].isDarkMode = Marker
           /\ ts[n].phase = "mounted" /\ ts[n].isDarkMode # Marker
           /\ \E m \in NavIds \ {n} : nav[m].phase = "mounted" /\ nav[m].isDarkMode # Marker
           /\ \E t \in SoloIds : ts[t].phase = "mounted" /\ ts[t].isDarkMode # Marker

\* Nav n stays mounted over the step.
NavStays(n) == nav[n].phase = "mounted" /\ nav'[n].phase = "mounted"

\* ThemeSwitcher t stays mounted over the step.
TsStays(t) == ts[t].phase = "mounted" /\ ts'[t].phase = "mounted"

\* C11: the class list changes only in a toggleDark step (or with the page,
\* on reload): render, mount effect and link click leave it alone.  And the
\* class list is read only by mount effects: the flag of a component that
\* stays mounted changes in no step but its own Nav's toggleDark, which
\* negates it whatever the class list holds.
C11_MarkerWrittenByToggleReadAtMount ==
    [][/\ classList' # classList => (Reload \/ \E n \in NavIds : ToggleDark(n))
       /\ Marker' # Marker => (Reload \/ \E n \in NavIds : ToggleDark(n))
       /\ \A n \in NavIds :
             NavStays(n) =>
                nav'[n].isDarkMode =
                    (IF ToggleDark(n) THEN ~nav[n].isDarkMode ELSE nav[n].isDarkMode)
       /\ \A t \in TsIds : TsStays(t) => ts'[t].isDarkMode = ts[t].isDarkMode]_vars

C11_Witness ==
    /\ hist = <<>>
    /\ opened # {}
    /\ \E n \in NavIds : nav[n].phase = "mounted" /\ nav[n].isDarkMode # Marker
    /\ \E t \in TsIds : ts[t].phase = "mounted" /\ tsSince[t] = 1 /\ ts[t].isDarkMode # Marker

\* C12: the image path of every rendered ThemeSwitcher is /botdw-white.png
\* when its flag is true and /botdw-black.png when its flag is false,
\* whatever the marker.
C12_LogoIsFunctionOfFlag ==
    \A t \in TsIds :
        ts[t].phase # "unmounted" =>
            ts[t].src = (IF ts[t].isDarkMode THEN "/botdw-white.png" ELSE "/botdw-black.png")

C12_Witness ==
    \E t \in TsIds : \E u \in TsIds :
        /\ ts[t].phase = "mounted" /\ ts[t].isDarkMode /\ ~Marker
        /\ ts[t].src = "/botdw-white.png"
        /\ ts[u].phase = "mounted" /\ ~ts[u].isDarkMode /\ ts[u].src = "/botdw-black.png"

\* A step of a component other than toggleDark.
OtherComponentStep ==
    \/ \E n \in NavIds : NavRenderInitial(n) \/ NavLayoutEffect(n) \/ NavUnmount(n)
    \/ \E n \in NavIds : \E url \in NavLinks(n) : OpenLink(n, url)
    \/ \E t \in SoloIds : TsRenderInitial(t) \/ TsLayoutEffect(t) \/ TsUnmount(t)

\* C13: the marker has the two states light and dark; toggleDark is enabled
\* for every mounted Nav and always moves the marker to its other state
\* (adds "dark" when absent, removes it when present); no other component
\* step moves it; and from every state, whatever the marker, a Nav can be
\* brought to render, mount and toggle, so both marker states are reachable
\* from either initial one.
C13_TwoStatesToggleBothWays ==
    /\ Marker \in BOOLEAN
    /\ \A n \in NavIds :
          /\ nav[n].phase = "unmounted" =>
                ENABLED (NavRenderInitial(n) /\ Marker' = Marker)
          /\ nav[n].phase = "rendered" =>
                ENABLED (NavLayoutEffect(n) /\ Marker' = Marker)
          /\ nav[n].phase = "mounted" =>
                /\ ENABLED (ToggleDark(n) /\ Marker' = ~Marker
                              /\ classList' \ {"dark"} = classList \ {"dark"})
                /\ ~ENABLED (ToggleDark(n) /\ Marker' = Marker)
    /\ ~ENABLED (OtherComponentStep /\ Marker' # Marker)

C13_Witness ==
    /\ Len(hist) = 2
    /\ \E t \in TsIds : ts[t].phase = "mounted" /\ tsSince[t] = 2
    /\ hist[1].before.classList = classList
    /\ ("dark" \in hist[2].before.classList) # Marker

C15_ToggleIsOneStepNegation ==
    [][/\ \A n \in NavIds :
             ToggleDark(n) =>
                /\ Marker' = ~Marker
                /\ nav'[n].isDarkMode = ~nav[n].isDarkMode
                /\ (nav[n].isDarkMode # Marker) => (nav'[n].isDarkMode # Marker')
       /\ (Marker' # Marker /\ ~Reload) =>
             \E n \in NavIds : NavStays(n) /\ nav'[n].isDarkMode = ~nav[n].isDarkMode
       /\ \A n \in NavIds :
             (NavStays(n) /\ nav'[n].isDarkMode # nav[n].isDarkMode) => Marker' # Marker]_vars

C15_Witness ==
    /\ hist # <<>>
    /\ \E n \in NavIds :
          /\ hist[Len(hist)].id = n
          /\ hist[Len(hist)].before.nav[n].isDarkMode
                # ("dark" \in hist[Len(hist)].before.classList)
          /\ nav[n].isDarkMode # hist[Len(hist)].before.nav[n].isDarkMode
          /\ nav[n].isDarkMode # Marker

\* C16: no operation can fail.  In every reachable state the mount effect
\* of every rendered component and the toggle of every mounted Nav can run
\* and end in a state with a (possibly changed) flag; every component's
\* state and output are well formed; the one thing that can be wrong is a
\* flag that disagrees with the marker.
C16_NoOperationFails ==
    /\ classList \subseteq Classes
    /\ \A n \in NavIds :
          /\ nav[n].phase \in {"unmounted", "rendered", "mounted"}
          /\ nav[n].isDarkMode \in BOOLEAN
          /\ nav[n].phase = "unmounted" => (nav[n].label = "" /\ ts[n].phase = "unmounted")
          /\ nav[n].phase # "unmounted" =>
                /\ <<nav[n].icon, nav[n].label>> \in
                       {<<"Sun", "Light Mode">>, <<"Moon", "Dark Mode">>}
                /\ ts[n].phase = nav[n].phase
          /\ nav[n].phase = "rendered" =>
                ENABLED (NavLayoutEffect(n) /\ nav'[n].phase = "mounted"
                           /\ nav'[n].isDarkMode = Marker /\ ts'[n].isDarkMode = Marker)
          /\ nav[n].phase = "mounted" =>
                ENABLED (ToggleDark(n) /\ nav'[n].phase = "mounted"
                           /\ nav'[n].isDarkMode # nav[n].isDarkMode)
    /\ \A t \in TsIds :
          /\ ts[t].phase \in {"unmounted", "rendered", "mounted"}
          /\ ts[t].isDarkMode \in BOOLEAN
          /\ ts[t].src \in (IF ts[t].phase = "unmounted"
                            THEN {""} ELSE {"/botdw-white.png", "/botdw-black.png"})
    /\ \A t \in SoloIds :
          ts[t].phase = "rendered" =>
             ENABLED (TsLayoutEffect(t) /\ ts'[t].phase = "mounted"
                        /\ ts'[t].isDarkMode = Marker)

C16_Witness ==
    /\ \E n \in NavIds :
          /\ nav[n].phase = "mounted" /\ nav[n].isDarkMode # Marker
          /\ ts[n].isDarkMode # nav[n].isDarkMode
          /\ ENABLED ToggleDark(n)
    /\ \E m \in NavIds : nav[m].phase = "rendered" /\ Marker /\ ENABLED NavLayoutEffect(m)

\* C17: a reload keeps nothing of the theme.  From every state, whatever
\* toggles were made, it can end with any class list the fresh document may
\* carry, and right after it no component is mounted and no flag, output or
\* toggle count is left: what is shown from then on comes from that class
\* list alone.
C17_ReloadForgetsTheme ==
    /\ \A c \in SUBSET Classes : ENABLED (Reload /\ classList' = c)
    /\ reloadFrom # <<>> =>
          /\ \A n \in NavIds : nav[n] = NoNav /\ navSince[n] = 0
          /\ \A t \in TsIds : ts[t] = NoTs /\ tsSince[t] = 0
          /\ hist = <<>>

C17_Witness ==
    /\ reloadFrom = <<[marker |-> TRUE, toggled |-> TRUE]>>
    /\ ~Marker
    /\ \A n \in NavIds : nav[n].phase = "unmounted"

\* C18: a click on the homepage or the read-more button of a Nav opens that
\* URL and leaves the class list and the state and output of every Nav and
\* ThemeSwitcher as they were.
C18_LinkClickKeepsTheme ==
    [][\A n \in NavIds : \A url \in {"pkg.homepage", "pkg.readmore"} :
         OpenLink(n, url) =>
            /\ opened' = opened \cup {url}
            /\ classList' = classList
            /\ nav' = nav
            /\ ts' = ts]_vars

C18_Witness ==
    /\ opened = {"pkg.homepage", "pkg.readmore"}
    /\ hist = <<>>
    /\ Marker
    /\ \E n \in NavIds :
          nav[n].phase = "mounted" /\ nav[n].isDarkMode /\ navSince[n] = 1 /\ ~ts[n].isDarkMode

\* C19: on a page with one Nav, whose toggleDark is then the only writer of
\* the marker, the Nav's flag equals the marker, and its label and icon
\* show it, in every state after its mount effect, after any number of
\* toggles.
C19_SingleNavFollowsMarker ==
    \A n \in NavIds :
        nav[n].phase = "mounted" =>
            /\ nav[n].isDarkMode = Marker
            /\ nav[n].label = (IF Marker THEN "Light Mode" ELSE "Dark Mode")
            /\ nav[n].icon = (IF Marker THEN "Sun" ELSE "Moon")

C19_Witness ==
    /\ nav[OnlyNav].phase = "mounted"
    /\ navSince[OnlyNav] = 2
    /\ Len(hist) = 2
    /\ Marker /\ nav[OnlyNav].isDarkMode /\ nav[OnlyNav].label = "Light Mode"
    /\ \A n \in NavIds \ {OnlyNav} : nav[n].phase = "unmounted"

\* C20: while a ThemeSwitcher stays mounted its flag and its image never
\* change; so, toggleDark being the only writer of the marker, its image
\* agrees with the marker exactly when the number of toggles since its
\* mount is even.
C20_LogoFrozenAgreesOnEvenToggles ==
    /\ [](\A t \in TsIds :
            ts[t].phase = "mounted" =>
               ((ts[t].src = (IF Marker THEN "/botdw-white.png" ELSE "/botdw-black.png"))
                  <=> (tsSince[t] % 2 = 0)))
    /\ [][\A t \in TsIds :
            TsStays(t) => (ts'[t].isDarkMode = ts[t].isDarkMode /\ ts'[t].src = ts[t].src)]_vars

C20_Witness ==
    \E t \in TsIds : \E u \in TsIds :
        /\ ts[t].phase = "mounted" /\ tsSince[t] = 1
        /\ ts[t].src # (IF Marker THEN "/botdw-white.png" ELSE "/botdw-black.png")
        /\ ts[u].phase = "mounted" /\ tsSince[u] = 2
        /\ ts[u].src = (IF Marker THEN "/botdw-white.png" ELSE "/botdw-black.png")

\* C21: a Nav and the ThemeSwitcher it renders finish mounting in the same
\* step, so there is no state with one of them mounted and the other not,
\* and right after it (no toggle since) the Nav's label and icon and the
\* logo's image show the same theme.
C21_NavAndLogoAgreeAfterMount ==
    \A n \in NavIds :
        /\ ts[n].phase = nav[n].phase
        /\ NavFresh(n) =>
              /\ tsSince[n] = 0
              /\ ts[n].isDarkMode = nav[n].isDarkMode
              /\ (nav[n].label = "Light Mode") = (ts[n].src = "/botdw-white.png")
              /\ (nav[n].label = "Dark Mode") = (ts[n].src = "/botdw-black.png")
              /\ (nav[n].icon = "Sun") = (ts[n].src = "/botdw-white.png")

C21_Witness ==
    \E n \in NavIds : \E m \in NavIds :
        /\ NavFresh(n)
        /\ nav[n].label = "Light Mode" /\ ts[n].src = "/botdw-white.png"
        /\ nav[m].phase = "mounted" /\ navSince[m] = 1
        /\ nav[m].label = "Light Mode" /\ ts[m].src = "/botdw-black.png"

\* C23: between its first render and its layout effect a Nav or a
\* ThemeSwitcher has the flag false whatever the marker, and its render
\* output is /botdw-black.png, "Dark Mode" and the Moon icon.
C23_FirstRenderIsLight ==
    /\ \A n \in NavIds :
          nav[n].phase = "rendered" =>
             /\ nav[n].isDarkMode = FALSE
             /\ nav[n].label = "Dark Mode"
             /\ nav[n].icon = "Moon"
    /\ \A t \in TsIds :
          ts[t].phase = "rendered" =>
             /\ ts[t].isDarkMode = FALSE
             /\ ts[t].src = "/botdw-black.png"

C23_Witness ==
    /\ Marker
    /\ \E n \in NavIds :
          /\ nav[n].phase = "rendered" /\ ~nav[n].isDarkMode /\ nav[n].label = "Dark Mode"
          /\ ts[n].phase = "rendered" /\ ts[n].src = "/botdw-black.png"
    /\ \E t \in SoloIds : ts[t].phase = "rendered" /\ ts[t].src = "/botdw-black.png"

\* C24: right after a toggleDark the class list holds, apart from "dark",
\* exactly the classes it held before, and "dark" has changed sides.
C24_ToggleTouchesOnlyDark ==
    hist # <<>> =>
        /\ classList \ {"dark"} = hist[Len(hist)].before.classList \ {"dark"}
        /\ Marker # ("dark" \in hist[Len(hist)].before.classList)

C24_Witness ==
    /\ hist # <<>>
    /\ hist[Len(hist)].before.classList = {"antialiased", "dark"}
    /\ classList = {"antialiased"}

\* C22: a component that was unmounted and is mounted again has, when its
\* layout effect has run, the flag the class list gives now, whether or not
\* it agreed with the class list when it was unmounted; so has its output.
C22_RemountReadsMarkerAgain ==
    \A c \in TsIds :
        (remount # <<>> /\ remount[1].id = c /\ ts[c].phase = "mounted") =>
            /\ ts[c].isDarkMode = Marker
            /\ (ts[c].src = "/botdw-white.png") = Marker
            /\ c \in NavIds =>
                  /\ nav[c].phase = "mounted"
                  /\ nav[c].isDarkMode = Marker
                  /\ (nav[c].label = "Light Mode") = Marker
                  /\ (nav[c].icon = "Sun") = Marker

C22_Witness ==
    /\ remount # <<>>
    /\ remount[1].disagreed
    /\ remount[1].id \in NavIds
    /\ nav[remount[1].id].phase = "mounted"
    /\ nav[remount[1].id].isDarkMode = Marker
    /\ ts[remount[1].id].isDarkMode = Marker
    /\ Marker

\* C25: the two Nav definitions, run side by side from the same marker
\* through the same mounts and clicks, have at every step the same marker,
\* the same flag and the same icon and label (and their logos the same
\* image), whatever link buttons each of them has.
C25_NavDefinitionsEquivalent ==
    /\ ("dark" \in twin) = Marker
    /\ nav[DigitalNav].phase = nav[BotNav].phase
    /\ nav[DigitalNav].isDarkMode = nav[BotNav].isDarkMode
    /\ nav[DigitalNav].icon = nav[BotNav].icon
    /\ nav[DigitalNav].label = nav[BotNav].label
    /\ ts[DigitalNav] = ts[BotNav]

C25_Witness ==
    /\ nav[BotNav].phase = "mounted"
    /\ nav[DigitalNav].phase = "mounted"
    /\ navSince[BotNav] = 2
    /\ navSince[DigitalNav] = 2
    /\ Marker
    /\ "dark" \in twin
    /\ twin # classList
    /\ nav[BotNav].label = "Light Mode"
    /\ nav[DigitalNav].label = "Light Mode"
    /\ "pkg.readmore" \in opened

====
